---- MODULE Spec2Model ----
(***************************************************************************)
(* Model of nemo/collections/llm/tools/auto_configurator/base_configs/     *)
(* basic.py: the class Basic, its constructor, its six accessors and the   *)
(* helper _get_data_weights.                                               *)
(*                                                                         *)
(* Python objects are modelled with reference semantics: cfg mappings and  *)
(* lists live in heaps (cfgs, lists) and attributes hold references, so    *)
(* that aliasing between a cfg, an instance and a returned mapping is      *)
(* visible.  Python values are tagged records: None, int, str, bool,       *)
(* float (a decimal mantissa/exponent pair) and list references.           *)
(***************************************************************************)
EXTENDS Integers, Sequences, FiniteSets, TLC

VARIABLES
    cfgs,    \* heap of dict objects: cfg id -> mapping key -> value
    lists,   \* heap of list objects: list id -> sequence of values
    obj,     \* constructed Basic instances: instance id -> attributes
    ret,     \* per instance: the last value an accessor returned to its caller
    exc      \* per instance: the exception its constructor raised, if any

vars == <<cfgs, lists, obj, ret, exc>>

(***************************************************************************)
(* Bounds                                                                  *)
(***************************************************************************)
MaxPaths == 8          \* longest data_paths list a caller passes in
MaxAppend == 1         \* how many elements callers append to one list

(***************************************************************************)
(* Python values                                                           *)
(***************************************************************************)
Null == [none |-> TRUE]
IntV(n) == [int |-> n]
StrV(s) == [str |-> s]
BoolV(b) == [bool |-> b]
\* the float m * 10^(-e)
FltV(m, e) == [flt |-> <<m, e>>]
RefV(l) == [ref |-> l]

IsRef(v) == DOMAIN v = {"ref"}
IsInt(v) == DOMAIN v = {"int"}
IsStr(v) == DOMAIN v = {"str"}

InstId == {1, 2}
DefaultCfg == 0        \* the dict object of the default argument cfg = {}
CallerCfg == 1         \* a mapping built by the caller

EmptyDict == [k \in {} |-> Null]

\* list objects: the data_paths list stored in cfg c, the weights list of instance i
PathsList(c) == <<"paths", c>>
WeightsList(i) == <<"weights", i>>

(***************************************************************************)
(* dict.get and truthiness                                                 *)
(***************************************************************************)
\* variant: cfg.get(key, 0)
CfgGet_zeroDefault(d, key) == IF key \in DOMAIN d THEN d[key] ELSE IntV(0)

\* cfg.get(key): the value, or None when the key is missing
CfgGet(d, key) == IF key \in DOMAIN d THEN d[key] ELSE Null

\* variant: "is not None" in place of truthiness
Truthy_isNotNone(v, h) == v # Null

\* bool(v) for None and for a list held in heap h
Truthy(v, h) ==
    IF v = Null THEN FALSE
    ELSE IF IsRef(v) THEN Len(h[v.ref]) > 0
    ELSE IF IsInt(v) THEN v.int # 0
    ELSE IF IsStr(v) THEN Len(v.str) > 0
    ELSE TRUE

(***************************************************************************)
(* np.round(1 / n, 2): numpy scales by 100, rounds to the nearest integer  *)
(* with ties to even, and scales back.  The result is kept in hundredths.  *)
(***************************************************************************)
Rint(num, den) ==
    LET q == num \div den
        r == num % den
    IN  IF 2 * r < den THEN q
        ELSE IF 2 * r > den THEN q + 1
        ELSE IF q % 2 = 0 THEN q ELSE q + 1

\* variant: truncation in place of rounding
RoundReciprocal_truncated(n) == FltV(100 \div n, 2)

RoundReciprocal(n) == FltV(Rint(100, n), 2)

\* variant: [x] * (n - 1)
Repeat_oneShort(x, n) == [k \in 1..(n - 1) |-> x]

\* [x] * n
Repeat(x, n) == [k \in 1..n |-> x]

(***************************************************************************)
(* Basic._get_data_weights: the outcome of the call for an object whose    *)
(* data_paths attribute is dp, in heap h.                                  *)
(***************************************************************************)
\* variant: "return []" in place of "return None"
get_data_weights_emptyList(dp, h) ==
    IF ~Truthy(dp, h) THEN [kind |-> "return", isNone |-> FALSE, val |-> <<>>]
    ELSE [kind |-> "return", isNone |-> FALSE,
          val |-> Repeat(RoundReciprocal(Len(h[dp.ref])), Len(h[dp.ref]))]

get_data_weights(dp, h) ==
    IF ~Truthy(dp, h) THEN [kind |-> "return", isNone |-> TRUE, val |-> <<>>]
    ELSE LET datafiles_num == Len(h[dp.ref])
         IN  IF datafiles_num = 0
             THEN [kind |-> "raise", isNone |-> FALSE, val |-> <<>>]
             ELSE [kind |-> "return", isNone |-> FALSE,
                   val |-> Repeat(RoundReciprocal(datafiles_num), datafiles_num)]

(***************************************************************************)
(* Accessors: pure functions of self                                       *)
(***************************************************************************)
model_config(self) == Null

tokenizer_config(self) == Null

\* variant: the learning rate follows the size unit of the model
get_optim_config_bySize(self) ==
    [optimizer |-> StrV("adam"),
     lr |-> IF self.measure = StrV("M") THEN FltV(1, 3) ELSE FltV(1, 4),
     min_lr |-> FltV(1, 5),
     use_distributed_optimizer |-> BoolV(TRUE),
     bf16 |-> BoolV(TRUE),
     adam_beta1 |-> FltV(9, 1),
     adam_beta2 |-> FltV(95, 2),
     overlap_grad_reduce |-> BoolV(FALSE),
     overlap_param_gather |-> BoolV(TRUE)]

get_optim_config(self) ==
    [optimizer |-> StrV("adam"),
     lr |-> FltV(1, 4),
     min_lr |-> FltV(1, 5),
     use_distributed_optimizer |-> BoolV(TRUE),
     bf16 |-> BoolV(TRUE),
     adam_beta1 |-> FltV(9, 1),
     adam_beta2 |-> FltV(95, 2),
     overlap_grad_reduce |-> BoolV(FALSE),
     overlap_param_gather |-> BoolV(TRUE)]

\* variant: "devices" taken from num_nodes
get_trainer_config_devicesFromNodes(self) ==
    [accelerator |-> StrV("gpu"),
     precision |-> StrV("bf16"),
     logger |-> BoolV(FALSE),
     enable_checkpointing |-> BoolV(FALSE),
     use_distributed_sampler |-> BoolV(FALSE),
     max_epochs |-> Null,
     log_every_n_steps |-> IntV(1),
     limit_val_batches |-> IntV(1),
     limit_test_batches |-> IntV(1),
     accumulate_grad_batches |-> IntV(1),
     gradient_clip_val |-> FltV(10, 1),
     num_nodes |-> self.num_nodes,
     devices |-> self.num_nodes,
     max_steps |-> self.max_steps,
     val_check_interval |-> self.max_steps]

get_trainer_config(self) ==
    [accelerator |-> StrV("gpu"),
     precision |-> StrV("bf16"),
     logger |-> BoolV(FALSE),
     enable_checkpointing |-> BoolV(FALSE),
     use_distributed_sampler |-> BoolV(FALSE),
     max_epochs |-> Null,
     log_every_n_steps |-> IntV(1),
     limit_val_batches |-> IntV(1),
     limit_test_batches |-> IntV(1),
     accumulate_grad_batches |-> IntV(1),
     gradient_clip_val |-> FltV(10, 1),
     num_nodes |-> self.num_nodes,
     devices |-> self.num_gpus,
     max_steps |-> self.max_steps,
     val_check_interval |-> self.max_steps]

get_data_config(self) ==
    [paths |-> self.data_paths,
     weights |-> self.weights,
     seq_length |-> self.seq_length,
     global_batch_size |-> self.global_batch_size,
     num_workers |-> IntV(2),
     split |-> StrV("99990,8,2"),
     index_mapping_dir |-> Null]

\* str(d) for a decimal digit
DigitStr(d) ==
    CASE d = 0 -> "0" [] d = 1 -> "1" [] d = 2 -> "2" [] d = 3 -> "3"
      [] d = 4 -> "4" [] d = 5 -> "5" [] d = 6 -> "6" [] d = 7 -> "7"
      [] d = 8 -> "8" [] d = 9 -> "9"

RECURSIVE NatStr(_)
NatStr(n) == IF n < 10 THEN DigitStr(n) ELSE NatStr(n \div 10) \o DigitStr(n % 10)

\* format(v, "") as an f-string replacement field does it
Format(v) ==
    IF v = Null THEN "None"
    ELSE IF IsStr(v) THEN v.str
    ELSE IF v.int < 0 THEN "-" \o NatStr(0 - v.int) ELSE NatStr(v.int)

\* variant: size and measure swapped in the job name
get_run_config_swapped(self) ==
    [name |-> StrV(Format(self.name) \o "_" \o Format(self.measure) \o Format(self.size)),
     results_dir |-> Null,
     time_limit |-> StrV("0-00:30:00")]

get_run_config(self) ==
    [name |-> StrV(Format(self.name) \o "_" \o Format(self.size) \o Format(self.measure)),
     results_dir |-> Null,
     time_limit |-> StrV("0-00:30:00")]

(***************************************************************************)
(* Basic.__init__                                                          *)
(***************************************************************************)
\* a keyword argument, or the default of the signature when it is not given
Arg(kw, key, default) == IF key \in DOMAIN kw THEN kw[key] ELSE default

\* the attributes assigned by lines 38-49, before weights is computed
InitAttrs(kw) ==
    LET cfg == Arg(kw, "cfg", DefaultCfg)
    IN  [name |-> Arg(kw, "name", Null),
         version |-> Arg(kw, "version", Null),
         size |-> Arg(kw, "size", Null),
         measure |-> Arg(kw, "measure", StrV("B")),
         cfg |-> cfg,
         num_nodes |-> CfgGet(cfgs[cfg], "num_nodes"),
         num_gpus |-> CfgGet(cfgs[cfg], "gpu_count"),
         max_steps |-> CfgGet(cfgs[cfg], "max_steps_per_run"),
         seq_length |-> CfgGet(cfgs[cfg], "seq_length"),
         global_batch_size |-> CfgGet(cfgs[cfg], "global_batch_size"),
         tokenizer_path |-> CfgGet(cfgs[cfg], "tokenizer_path"),
         data_paths |-> CfgGet(cfgs[cfg], "data_paths")]

NoCall == [op |-> "none", val |-> Null]

Construct(i, kw) ==
    /\ i \notin DOMAIN obj
    /\ exc[i] = "none"
    /\ Arg(kw, "cfg", DefaultCfg) \in DOMAIN cfgs
    /\ LET a == InitAttrs(kw)
           w == get_data_weights(a.data_paths, lists)
       IN  IF w.kind = "raise"
           THEN /\ exc' = [exc EXCEPT ![i] = "ZeroDivisionError"]
                /\ UNCHANGED <<obj, lists>>
           ELSE /\ obj' = obj @@ (i :> (a @@ [weights |-> IF w.isNone THEN Null ELSE RefV(WeightsList(i))]))
                /\ lists' = IF w.isNone THEN lists ELSE lists @@ (WeightsList(i) :> w.val)
                /\ UNCHANGED exc
    /\ UNCHANGED <<cfgs, ret>>

(***************************************************************************)
(* Accessor calls: the caller of instance i receives the returned value    *)
(***************************************************************************)
\* variant: get_run_config keeps the job name it built in self.name
Returned_storesName(i, op, val) ==
    /\ i \in DOMAIN obj
    /\ ret' = [ret EXCEPT ![i] = [op |-> op, val |-> val]]
    /\ obj' = IF op = "get_run_config" THEN [obj EXCEPT ![i].name = val.name] ELSE obj
    /\ UNCHANGED <<cfgs, lists, exc>>

Returned(i, op, val) ==
    /\ i \in DOMAIN obj
    /\ ret' = [ret EXCEPT ![i] = [op |-> op, val |-> val]]
    /\ UNCHANGED <<cfgs, lists, obj, exc>>

CallModelConfig(i) == Returned(i, "model_config", model_config(obj[i]))

CallTokenizerConfig(i) == Returned(i, "tokenizer_config", tokenizer_config(obj[i]))

CallGetOptimConfig(i) == Returned(i, "get_optim_config", get_optim_config(obj[i]))

CallGetTrainerConfig(i) == Returned(i, "get_trainer_config", get_trainer_config(obj[i]))

CallGetDataConfig(i) == Returned(i, "get_data_config", get_data_config(obj[i]))

CallGetRunConfig(i) == Returned(i, "get_run_config", get_run_config(obj[i]))

Accessor(i) ==
    \/ CallModelConfig(i)
    \/ CallTokenizerConfig(i)
    \/ CallGetOptimConfig(i)
    \/ CallGetTrainerConfig(i)
    \/ CallGetDataConfig(i)
    \/ CallGetRunConfig(i)

(***************************************************************************)
(* Callers: the mapping a caller passes as cfg, and what a caller does     *)
(* with the mapping get_data_config handed back.                           *)
(***************************************************************************)
\* the caller builds the mapping it will pass as cfg; data_paths, when
\* given, is a list object of its own that the mapping refers to
MakeCfg(scalars, hasPaths, paths) ==
    /\ CallerCfg \notin DOMAIN cfgs
    /\ IF hasPaths
       THEN /\ cfgs' = cfgs @@ (CallerCfg :> (scalars @@ ("data_paths" :> RefV(PathsList(CallerCfg)))))
            /\ lists' = lists @@ (PathsList(CallerCfg) :> paths)
       ELSE /\ cfgs' = cfgs @@ (CallerCfg :> scalars)
            /\ UNCHANGED lists
    /\ UNCHANGED <<obj, ret, exc>>

\* get_data_config()['paths'].append(x) / get_data_config()['weights'].append(x)
AppendReturned(i, field, x, maxLen) ==
    /\ ret[i].op = "get_data_config"
    /\ IsRef(ret[i].val[field])
    /\ Len(lists[ret[i].val[field].ref]) < maxLen
    /\ lists' = [lists EXCEPT ![ret[i].val[field].ref] = Append(@, x)]
    /\ UNCHANGED <<cfgs, obj, ret, exc>>

\* get_data_config()['num_workers'] = x on the mapping the caller holds
SetReturnedItem(i, x) ==
    /\ ret[i].op = "get_data_config"
    /\ ret[i].val.num_workers # x
    /\ ret' = [ret EXCEPT ![i].val.num_workers = x]
    /\ UNCHANGED <<cfgs, lists, obj, exc>>

(***************************************************************************)
(* Inputs                                                                  *)
(***************************************************************************)
Opt(key, vals) == {EmptyDict} \cup {(key :> v) : v \in vals}

\* every subset of the six scalar keys, each present key with a value of its own
CfgScalars ==
    {a @@ b @@ c @@ d @@ e @@ f :
        a \in Opt("num_nodes", {IntV(2)}),
        b \in Opt("gpu_count", {IntV(8)}),
        c \in Opt("max_steps_per_run", {IntV(100)}),
        d \in Opt("seq_length", {IntV(2048)}),
        e \in Opt("global_batch_size", {IntV(128)}),
        f \in Opt("tokenizer_path", {StrV("/tok")})}

PathName(k) == StrV("data_" \o NatStr(k))

PathSeqs(maxLen) == {[k \in 1..n |-> PathName(k)] : n \in 0..maxLen}

KwArgs ==
    {a @@ b @@ c @@ d @@ e :
        a \in Opt("name", {StrV("gpt3")}),
        b \in Opt("version", {IntV(3)}),
        c \in Opt("size", {IntV(5)}),
        d \in Opt("measure", {StrV("M"), StrV("B")}),
        e \in Opt("cfg", {CallerCfg})}

Init ==
    /\ cfgs = (DefaultCfg :> EmptyDict)
    /\ lists = <<>>
    /\ obj = <<>>
    /\ ret = [i \in InstId |-> NoCall]
    /\ exc = [i \in InstId |-> "none"]

(***************************************************************************)
(* Spec: one object, every input, every sequence of accessor calls         *)
(***************************************************************************)
Next ==
    \/ \E scalars \in CfgScalars, hasPaths \in BOOLEAN :
          \E paths \in (IF hasPaths THEN PathSeqs(MaxPaths) ELSE {<<>>}) :
             MakeCfg(scalars, hasPaths, paths)
    \/ \E kw \in KwArgs : Construct(1, kw)
    \/ CallModelConfig(1)
    \/ CallTokenizerConfig(1)
    \/ CallGetOptimConfig(1)
    \/ CallGetTrainerConfig(1)
    \/ CallGetDataConfig(1)
    \/ CallGetRunConfig(1)

Spec == Init /\ [][Next]_vars

(***************************************************************************)
(* SpecShared: two objects, built from the caller's mapping or from the    *)
(* default argument, whose callers also modify what get_data_config        *)
(* returned to them.                                                       *)
(***************************************************************************)
MaxSharedPaths == 2

SharedScalars == {s \in CfgScalars : DOMAIN s = {} \/ Cardinality(DOMAIN s) = 6}

SharedKw ==
    {k \in KwArgs : /\ {"name", "size"} \subseteq DOMAIN k
                    /\ DOMAIN k \subseteq {"name", "size", "measure", "cfg"}
                    /\ ("measure" \in DOMAIN k => k["measure"] = StrV("M"))}

Mutate(i) ==
    \/ AppendReturned(i, "paths", StrV("extra"), MaxSharedPaths + MaxAppend)
    \/ AppendReturned(i, "weights", FltV(0, 2), MaxSharedPaths + MaxAppend)
    \/ SetReturnedItem(i, IntV(0))

NextShared ==
    \/ \E scalars \in SharedScalars, hasPaths \in BOOLEAN :
          \E paths \in (IF hasPaths THEN PathSeqs(MaxSharedPaths) ELSE {<<>>}) :
             MakeCfg(scalars, hasPaths, paths)
    \/ \E i \in InstId, kw \in SharedKw : Construct(i, kw)
    \/ \E i \in InstId : Accessor(i)
    \/ \E i \in InstId : Mutate(i)

SpecShared == Init /\ [][NextShared]_vars

(***************************************************************************)
(* Views used by the properties                                            *)
(***************************************************************************)
\* the value a reference stands for
Deref(v) == IF IsRef(v) THEN [list |-> lists[v.ref]] ELSE v

\* the mapping get_data_config returns, as its reader sees it
DataView(self) ==
    LET d == get_data_config(self)
    IN  [d EXCEPT !.paths = Deref(@), !.weights = Deref(@)]

\* what the six accessors of instance j return, as their reader sees it
Observed(j) ==
    <<model_config(obj[j]), tokenizer_config(obj[j]), get_optim_config(obj[j]),
      get_trainer_config(obj[j]), DataView(obj[j]), get_run_config(obj[j])>>

\* the attributes of instance j with its two list attributes read out
AttrView(j) == <<obj[j], Deref(obj[j].data_paths), Deref(obj[j].weights)>>

\* the length of the data_paths list of instance i, -1 when data_paths is None
NumPaths(i) == IF IsRef(obj[i].data_paths) THEN Len(lists[obj[i].data_paths.ref]) ELSE 0 - 1

Abs(x) == IF x < 0 THEN 0 - x ELSE x

\* m hundredths is a multiple of 0.01 nearest to 1/n
NearestHundredth(m, n) == 2 * Abs(m * n - 100) <= n

(***************************************************************************)
(* C1: for data_paths of length n >= 1 the weights computed at             *)
(* construction are n elements, each 1/n rounded to two decimals (n = 3    *)
(* gives [0.33, 0.33, 0.33]), and get_data_config()['weights'] is that     *)
(* sequence.                                                               *)
(***************************************************************************)
C1_EqualRoundedWeights ==
    \A i \in DOMAIN obj :
        NumPaths(i) >= 1 =>
            /\ IsRef(obj[i].weights)
            /\ LET n == NumPaths(i)
                   w == lists[obj[i].weights.ref]
               IN  /\ Len(w) = n
                   /\ \A k \in 1..Len(w) :
                         /\ DOMAIN w[k] = {"flt"}
                         /\ w[k].flt[2] = 2
                         /\ NearestHundredth(w[k].flt[1], n)
                   /\ (n = 3 => w = <<FltV(33, 2), FltV(33, 2), FltV(33, 2)>>)
                   /\ (ret[i].op = "get_data_config" =>
                          /\ IsRef(ret[i].val.weights)
                          /\ lists[ret[i].val.weights.ref] = w)

C1_Witness ==
    /\ 1 \in DOMAIN obj
    /\ NumPaths(1) = 3
    /\ ret[1].op = "get_data_config"
    /\ Deref(ret[1].val.weights) = [list |-> <<FltV(33, 2), FltV(33, 2), FltV(33, 2)>>]

(***************************************************************************)
(* C2 as stated: a present but empty data_paths makes the constructor      *)
(* fail with a division error, so no object exists for that input.         *)
(***************************************************************************)
C2_EmptyPathsRaise ==
    \A i \in DOMAIN obj : NumPaths(i) # 0

(***************************************************************************)
(* C2 amended: a present but empty data_paths raises nothing; the object   *)
(* is built with weights None, and get_data_config() returns the empty     *)
(* list as 'paths' and None as 'weights'.                                  *)
(***************************************************************************)
C2_EmptyPathsGiveNoWeights ==
    \A i \in InstId :
        /\ exc[i] # "ZeroDivisionError"
        /\ (i \in DOMAIN obj /\ NumPaths(i) = 0) =>
              /\ obj[i].weights = Null
              /\ (ret[i].op = "get_data_config" =>
                     /\ ret[i].val.weights = Null
                     /\ Deref(ret[i].val.paths) = [list |-> <<>>])

C2_Witness ==
    /\ 1 \in DOMAIN obj
    /\ NumPaths(1) = 0
    /\ exc[1] = "none"
    /\ ret[1].op = "get_data_config"
    /\ ret[1].val.weights = Null

(***************************************************************************)
(* C3: when cfg has no data_paths key, the weights are None and            *)
(* get_data_config() has None for both 'paths' and 'weights', whatever     *)
(* the other constructor inputs are.                                       *)
(***************************************************************************)
C3_AbsentPathsGiveNull ==
    \A i \in DOMAIN obj :
        "data_paths" \notin DOMAIN cfgs[obj[i].cfg] =>
            /\ obj[i].data_paths = Null
            /\ obj[i].weights = Null
            /\ (ret[i].op = "get_data_config" =>
                   /\ ret[i].val.paths = Null
                   /\ ret[i].val.weights = Null)

C3_Witness ==
    /\ 1 \in DOMAIN obj
    /\ obj[1].cfg = CallerCfg
    /\ "data_paths" \notin DOMAIN cfgs[CallerCfg]
    /\ obj[1].seq_length = IntV(2048)
    /\ ret[1].op = "get_data_config"
    /\ ret[1].val.paths = Null

(***************************************************************************)
(* C4: construction never raises for a cfg that omits any subset of the    *)
(* recognized keys; each omitted key gives a None attribute, and that      *)
(* None is the corresponding field of get_trainer_config() and             *)
(* get_data_config().                                                      *)
(***************************************************************************)
Missing(i, key) == key \notin DOMAIN cfgs[obj[i].cfg]

C4_MissingKeysAreNull ==
    \A i \in InstId :
        /\ exc[i] = "none"
        /\ i \in DOMAIN obj =>
              /\ Missing(i, "num_nodes") => obj[i].num_nodes = Null
              /\ Missing(i, "gpu_count") => obj[i].num_gpus = Null
              /\ Missing(i, "max_steps_per_run") => obj[i].max_steps = Null
              /\ Missing(i, "seq_length") => obj[i].seq_length = Null
              /\ Missing(i, "global_batch_size") => obj[i].global_batch_size = Null
              /\ Missing(i, "tokenizer_path") => obj[i].tokenizer_path = Null
              /\ Missing(i, "data_paths") => obj[i].data_paths = Null
              /\ ret[i].op = "get_trainer_config" =>
                    /\ Missing(i, "num_nodes") => ret[i].val.num_nodes = Null
                    /\ Missing(i, "gpu_count") => ret[i].val.devices = Null
                    /\ Missing(i, "max_steps_per_run") =>
                          /\ ret[i].val.max_steps = Null
                          /\ ret[i].val.val_check_interval = Null
              /\ ret[i].op = "get_data_config" =>
                    /\ Missing(i, "seq_length") => ret[i].val.seq_length = Null
                    /\ Missing(i, "global_batch_size") => ret[i].val.global_batch_size = Null
                    /\ Missing(i, "data_paths") => ret[i].val.paths = Null

C4_Witness ==
    /\ 1 \in DOMAIN obj
    /\ obj[1].cfg = CallerCfg
    /\ DOMAIN cfgs[CallerCfg] = {"num_nodes", "seq_length"}
    /\ ret[1].op = "get_trainer_config"
    /\ ret[1].val.devices = Null
    /\ ret[1].val.num_nodes = IntV(2)

(***************************************************************************)
(* C5: once the object is constructed no step changes any attribute        *)
(* (the two lists included), and every get_data_config() call returns the  *)
(* weights list made by the constructor.                                   *)
(***************************************************************************)
C5_ReadOnlyAfterConstruction ==
    [][\A i \in DOMAIN obj :
          /\ i \in DOMAIN obj'
          /\ obj'[i] = obj[i]
          /\ AttrView(i)' = AttrView(i)
          /\ (ret'[i].op = "get_data_config" => ret'[i].val.weights = obj[i].weights)]_vars

C5_Witness ==
    /\ 1 \in DOMAIN obj
    /\ NumPaths(1) = 2
    /\ obj[1].weights = RefV(WeightsList(1))
    /\ ret[1].op = "get_data_config"
    /\ ret[1].val.weights = RefV(WeightsList(1))

(***************************************************************************)
(* C6 as stated: no accessor call on one instance, and no change a caller  *)
(* makes to what one instance returned, changes what any accessor of the   *)
(* other instance returns.                                                 *)
(***************************************************************************)
C6_InstancesIndependent ==
    [][\A i \in InstId :
          (Accessor(i) \/ Mutate(i)) =>
              \A j \in (DOMAIN obj) \ {i} : Observed(j)' = Observed(j)]_vars

(***************************************************************************)
(* C7: after construction and any accessor calls, when data_paths and      *)
(* weights are both not None they have the same length.                    *)
(***************************************************************************)
C7_WeightsMatchPaths ==
    \A i \in DOMAIN obj :
        (IsRef(obj[i].data_paths) /\ IsRef(obj[i].weights)) =>
            Len(lists[obj[i].weights.ref]) = Len(lists[obj[i].data_paths.ref])

C7_Witness ==
    /\ 1 \in DOMAIN obj
    /\ IsRef(obj[1].data_paths)
    /\ IsRef(obj[1].weights)
    /\ Len(lists[obj[1].weights.ref]) = 5
    /\ ret[1].op = "get_run_config"

(***************************************************************************)
(* C8: get_trainer_config() has max_steps = val_check_interval = cfg's     *)
(* max_steps_per_run (None when missing), num_nodes = cfg's num_nodes and  *)
(* devices = cfg's gpu_count.                                              *)
(***************************************************************************)
C8_TrainerFieldsFromCfg ==
    \A i \in DOMAIN obj :
        ret[i].op = "get_trainer_config" =>
            LET cfg == cfgs[obj[i].cfg]
                given(key) == IF key \in DOMAIN cfg THEN cfg[key] ELSE Null
            IN  /\ ret[i].val.max_steps = ret[i].val.val_check_interval
                /\ ret[i].val.max_steps = given("max_steps_per_run")
                /\ ret[i].val.num_nodes = given("num_nodes")
                /\ ret[i].val.devices = given("gpu_count")

C8_Witness ==
    /\ 1 \in DOMAIN obj
    /\ ret[1].op = "get_trainer_config"
    /\ ret[1].val.max_steps = IntV(100)
    /\ ret[1].val.val_check_interval = IntV(100)
    /\ ret[1].val.num_nodes = IntV(2)
    /\ ret[1].val.devices = IntV(8)

(***************************************************************************)
(* C9: for name, size and measure not None, get_run_config()['name'] is    *)
(* name, '_', size, measure joined ('gpt3', 5, 'B' gives 'gpt3_5B');       *)
(* results_dir is None and time_limit is '0-00:30:00' for every input;     *)
(* measure is 'B' when the caller does not give it.                        *)
(***************************************************************************)
C9_RunConfigFields ==
    \A i \in DOMAIN obj :
        ret[i].op = "get_run_config" =>
            /\ ret[i].val.results_dir = Null
            /\ ret[i].val.time_limit = StrV("0-00:30:00")
            /\ (obj[i].name = StrV("gpt3") /\ obj[i].size = IntV(5) /\ obj[i].measure = StrV("B"))
                  => ret[i].val.name = StrV("gpt3_5B")
            /\ (obj[i].name = StrV("gpt3") /\ obj[i].size = IntV(5) /\ obj[i].measure = StrV("M"))
                  => ret[i].val.name = StrV("gpt3_5M")

C9_MeasureDefault ==
    \A kw \in KwArgs :
        (Construct(1, kw) /\ "measure" \notin DOMAIN kw /\ 1 \in DOMAIN obj')
            => obj'[1].measure = StrV("B")

C9_RunConfig == [](C9_RunConfigFields) /\ [][C9_MeasureDefault]_vars

C9_Witness ==
    /\ 1 \in DOMAIN obj
    /\ obj[1].name = StrV("gpt3")
    /\ obj[1].size = IntV(5)
    /\ obj[1].measure = StrV("B")
    /\ ret[1].op = "get_run_config"
    /\ ret[1].val.name = StrV("gpt3_5B")

(***************************************************************************)
(* C10: get_optim_config() returns the same literal values on every call,  *)
(* for any two objects built from different inputs, at any point of any    *)
(* sequence of calls.                                                      *)
(***************************************************************************)
C10_OptimConfigConstant ==
    \A i, j \in DOMAIN obj :
        (ret[i].op = "get_optim_config" /\ ret[j].op = "get_optim_config") =>
            /\ ret[i].val = ret[j].val
            /\ ret[i].val.optimizer = StrV("adam")
            /\ ret[i].val.lr = FltV(1, 4)
            /\ ret[i].val.min_lr = FltV(1, 5)
            /\ ret[i].val.use_distributed_optimizer = BoolV(TRUE)
            /\ ret[i].val.bf16 = BoolV(TRUE)
            /\ ret[i].val.adam_beta1 = FltV(9, 1)
            /\ ret[i].val.adam_beta2 = FltV(95, 2)
            /\ ret[i].val.overlap_grad_reduce = BoolV(FALSE)
            /\ ret[i].val.overlap_param_gather = BoolV(TRUE)
            /\ DOMAIN ret[i].val = {"optimizer", "lr", "min_lr", "use_distributed_optimizer",
                                    "bf16", "adam_beta1", "adam_beta2",
                                    "overlap_grad_reduce", "overlap_param_gather"}

C10_Witness ==
    /\ DOMAIN obj = {1, 2}
    /\ obj[1].measure # obj[2].measure
    /\ obj[1].data_paths # obj[2].data_paths
    /\ obj[1].num_nodes # obj[2].num_nodes
    /\ ret[1].op = "get_optim_config"
    /\ ret[2].op = "get_optim_config"

====
